---- MODULE Spec2Model ----
(***************************************************************************)
(* Model of AQI_code.py: the MQ-135 / MCP3008 acquisition loop that reads  *)
(* a 10-bit sample, derives PPM and AQI, asks the OpenVINO model for a     *)
(* prediction and posts the telemetry to ThingsBoard.                      *)
(*                                                                         *)
(* Python floats are modelled as decimal floating point numbers            *)
(* [m, e] = m * 10^e with a mantissa of at most four significant digits,   *)
(* rounded to nearest after every operation, as IEEE doubles round after   *)
(* every operation at 53 bits.  The representation is canonical (no        *)
(* trailing zero in m, zero is [0, 0]) so that = is numeric equality.      *)
(***************************************************************************)
EXTENDS Integers, Sequences, FiniteSets, TLC

(***************************************************************************)
(* Floating point arithmetic                                               *)
(***************************************************************************)
MantDigits == 2 + 2
MantHi == 10 ^ MantDigits
MantLo == 10 ^ (MantDigits - 1)

Abs(n) == IF n < 0 THEN -n ELSE n

RECURSIVE NumDigits(_)
NumDigits(n) == IF n < 10 THEN 1 ELSE 1 + NumDigits(n \div 10)

RECURSIVE Strip(_, _)
Strip(m, e) ==
    IF m = 0 THEN [m |-> 0, e |-> 0]
    ELSE IF m % 10 = 0 THEN Strip(m \div 10, e + 1)
    ELSE [m |-> m, e |-> e]

\* m * 10^e, m >= 0, rounded half-up to MantDigits significant digits
RoundPos(m, e) ==
    IF m < MantHi THEN Strip(m, e)
    ELSE LET k == NumDigits(m) - MantDigits
             q == (m + (10 ^ k) \div 2) \div (10 ^ k)
         IN  Strip(q, e + k)

Round(m, e) ==
    IF m < 0 THEN LET r == RoundPos(-m, e) IN [m |-> -(r.m), e |-> r.e]
    ELSE RoundPos(m, e)

\* int -> float conversion
Float(n) == Round(n, 0)

\* the same value with the mantissa scaled into MantLo .. MantHi - 1
\* (x # 0)
Full(x) ==
    LET k == MantDigits - NumDigits(Abs(x.m))
    IN  [m |-> x.m * (10 ^ k), e |-> x.e - k]

Neg(x) == [m |-> -(x.m), e |-> x.e]

Mul(x, y) == Round(x.m * y.m, x.e + y.e)

\* x / y for y # 0 (the callers guard against a zero divisor)
Div(x, y) ==
    IF x.m = 0 THEN x
    ELSE LET fx == Full(x)
             n  == Abs(fx.m) * (10 ^ (MantDigits + 1))
             q  == n \div Abs(y.m)
             r  == RoundPos(q, fx.e - (MantDigits + 1) - y.e)
         IN  IF (x.m < 0) = (y.m < 0) THEN r ELSE Neg(r)

Add(x, y) ==
    IF x.m = 0 THEN y
    ELSE IF y.m = 0 THEN x
    ELSE LET fx == Full(x)
             fy == Full(y)
         IN  IF fx.e - fy.e > MantDigits + 1 THEN x
             ELSE IF fy.e - fx.e > MantDigits + 1 THEN y
             ELSE IF fx.e >= fy.e
                  THEN Round(fx.m * (10 ^ (fx.e - fy.e)) + fy.m, fy.e)
                  ELSE Round(fx.m + fy.m * (10 ^ (fy.e - fx.e)), fx.e)

Sub(x, y) == Add(x, Neg(y))

Gt(x, y) == Sub(x, y).m > 0
Geq(x, y) == Sub(x, y).m >= 0

\* integer square root, n >= 1
RECURSIVE Newton(_, _)
Newton(n, x) ==
    LET y == (x + n \div x) \div 2
    IN  IF y >= x THEN x ELSE Newton(n, y)

Isqrt(n) == Newton(n, n)

LogBits == 12

\* binary digits of log10(y / MantLo), MantLo <= y < MantHi, by repeated
\* squaring: log10(y^2) = 2 log10(y)
RECURSIVE LogFrac(_, _, _)
LogFrac(y, k, acc) ==
    IF k = 0 THEN acc
    ELSE LET y2 == (y * y) \div MantLo
         IN  IF y2 >= MantHi
             THEN LogFrac(y2 \div 10, k - 1, 2 * acc + 1)
             ELSE LogFrac(y2, k - 1, 2 * acc)

\* math.log10(x) for x > 0
Log10(x) ==
    LET fx   == Full(x)
        bits == LogFrac(fx.m, LogBits, 0)
        frac == Round((bits * (10 ^ (MantDigits + 1))) \div (2 ^ LogBits),
                      -(MantDigits + 1))
    IN  Add(Float(fx.e + MantDigits - 1), frac)

\* 10^(f / 2^LogBits) scaled by MantLo, from the low bit of f upwards:
\* 10^((b + t) / 2) = sqrt(10^b * 10^t)
RECURSIVE PowFrac(_, _, _)
PowFrac(f, k, r) ==
    IF k = 0 THEN r
    ELSE PowFrac(f \div 2, k - 1,
                 Isqrt((IF f % 2 = 1 THEN 10 * r ELSE r) * MantLo))

\* math.pow(10, x)
Pow10(x) ==
    LET fixed == IF x.e >= 0 THEN x.m * (10 ^ x.e) * (2 ^ LogBits)
                 ELSE (x.m * (2 ^ LogBits)) \div (10 ^ (-(x.e)))
        int   == fixed \div (2 ^ LogBits)
        f     == fixed % (2 ^ LogBits)
    IN  Round(PowFrac(f, LogBits, MantLo), int - (MantDigits - 1))

(***************************************************************************)
(* Module-level constants of AQI_code.py                                   *)
(***************************************************************************)
Zero == [m |-> 0, e |-> 0]

MQ135_CHANNEL == 0
R0 == [m |-> 1, e |-> 1]
known_resistor_value == [m |-> 1, e |-> 1]
supply_voltage == [m |-> 33, e |-> -1]
SLEEP_SECONDS == 5

\* a name that has not been assigned yet
Unbound == [unbound |-> TRUE]

INFO == "INFO"
WARNING == "WARNING"
ERROR == "ERROR"
Log(level, msg) == <<level, msg>>

(***************************************************************************)
(* Bit operations on non-negative Python ints                              *)
(***************************************************************************)
RECURSIVE BitAnd(_, _)
BitAnd(a, b) ==
    IF a = 0 \/ b = 0 THEN 0
    ELSE 2 * BitAnd(a \div 2, b \div 2) + (IF a % 2 = 1 /\ b % 2 = 1 THEN 1 ELSE 0)

ShiftLeft(a, n) == a * (2 ^ n)

(***************************************************************************)
(* The collaborators' answers: what the SPI bus, the compiled model and    *)
(* the HTTP endpoint can deliver to one call                               *)
(***************************************************************************)
Byte == 0 .. 255
TransportFault == <<>>

\* spi.xfer2 answers: every 10-bit code the later steps distinguish, with
\* and without junk in the bits read_adc masks off
AdcResponses ==
    { <<0, 0, 0>>, <<255, 252, 0>>, <<0, 0, 1>>, <<0, 1, 154>>, <<0, 1, 155>>,
      <<0, 2, 0>>, <<0, 3, 254>>, <<0, 3, 255>>, <<1, 255, 255>> }

\* requests.post answers: a response with a status code, or no response
NetworkError == 0
HttpOutcomes == {200, 500, NetworkError}

\* compiled_model answers: result[0], or an exception of the runtime
InferenceError == [raised |-> TRUE]
Predictions == { [m |-> 0, e |-> 0], [m |-> 425, e |-> -1] }

(***************************************************************************)
(* The functions of AQI_code.py.  Each returns what the Python function    *)
(* returns, the log records it writes, and whether it raised.              *)
(***************************************************************************)
\* variant of read_adc: the mask is 7 instead of 3
read_adc_masks_three_bits(channel, bus) ==
    LET request == <<1, ShiftLeft(8 + channel, 4), 0>>
    IN  IF bus = TransportFault
        THEN [raised |-> TRUE, request |-> request, data |-> Unbound, log |-> <<>>]
        ELSE LET data == ShiftLeft(BitAnd(bus[2], 7), 8) + bus[3]
             IN  [raised |-> FALSE, request |-> request, data |-> data,
                  log |-> <<Log(INFO, "Read ADC value")>>]

\* variant of read_adc: a bus fault is caught and 0 returned
read_adc_swallows_fault(channel, bus) ==
    LET request == <<1, ShiftLeft(8 + channel, 4), 0>>
    IN  IF bus = TransportFault
        THEN [raised |-> FALSE, request |-> request, data |-> 0,
              log |-> <<Log(ERROR, "Read ADC failed")>>]
        ELSE LET data == ShiftLeft(BitAnd(bus[2], 3), 8) + bus[3]
             IN  [raised |-> FALSE, request |-> request, data |-> data,
                  log |-> <<Log(INFO, "Read ADC value")>>]

\* def read_adc(channel); bus is what spi.xfer2 answers
read_adc(channel, bus) ==
    LET request == <<1, ShiftLeft(8 + channel, 4), 0>>
    IN  IF bus = TransportFault
        THEN [raised |-> TRUE, request |-> request, data |-> Unbound, log |-> <<>>]
        ELSE LET data == ShiftLeft(BitAnd(bus[2], 3), 8) + bus[3]
             IN  [raised |-> FALSE, request |-> request, data |-> data,
                  log |-> <<Log(INFO, "Read ADC value")>>]

slope == [m |-> -38, e |-> -2]
intercept == [m |-> 12, e |-> -1]

\* variant of calculate_ppm: no voltage == 0 test, the division raises
calculate_ppm_no_zero_guard(analog_value) ==
    LET voltage == Mul(Div(Float(analog_value), Float(1023)), supply_voltage)
    IN  IF voltage = Zero
        THEN [raised |-> TRUE, ppm |-> Unbound, voltage |-> Unbound, log |-> <<>>]
        ELSE LET Rs    == Mul(Div(Sub(supply_voltage, voltage), voltage),
                              known_resistor_value)
                 ratio == Div(Rs, R0)
             IN  IF ~ Gt(ratio, Zero)
                 THEN [raised |-> TRUE, ppm |-> Unbound, voltage |-> Unbound,
                       log |-> <<>>]
                 ELSE [raised |-> FALSE,
                       ppm |-> Pow10(Div(Sub(Log10(ratio), intercept), slope)),
                       voltage |-> voltage,
                       log |-> <<Log(INFO, "Calculated PPM")>>]

\* variant of calculate_ppm: a non-positive ratio yields ppm 0
calculate_ppm_guards_ratio(analog_value) ==
    LET voltage == Mul(Div(Float(analog_value), Float(1023)), supply_voltage)
    IN  IF voltage = Zero
        THEN [raised |-> FALSE, ppm |-> Zero, voltage |-> Zero,
              log |-> <<Log(WARNING, "Voltage is zero, check sensor wiring.")>>]
        ELSE LET Rs    == Mul(Div(Sub(supply_voltage, voltage), voltage),
                              known_resistor_value)
                 ratio == Div(Rs, R0)
             IN  IF ~ Gt(ratio, Zero)
                 THEN [raised |-> FALSE, ppm |-> Zero, voltage |-> voltage,
                       log |-> <<Log(WARNING, "Ratio is not positive.")>>]
                 ELSE [raised |-> FALSE,
                       ppm |-> Pow10(Div(Sub(Log10(ratio), intercept), slope)),
                       voltage |-> voltage,
                       log |-> <<Log(INFO, "Calculated PPM")>>]

\* def calculate_ppm(analog_value)
calculate_ppm(analog_value) ==
    LET voltage == Mul(Div(Float(analog_value), Float(1023)), supply_voltage)
    IN  IF voltage = Zero
        THEN [raised |-> FALSE, ppm |-> Zero, voltage |-> Zero,
              log |-> <<Log(WARNING, "Voltage is zero, check sensor wiring.")>>]
        ELSE LET Rs    == Mul(Div(Sub(supply_voltage, voltage), voltage),
                              known_resistor_value)
                 ratio == Div(Rs, R0)
             IN  \* math.log10 raises ValueError unless ratio > 0
                 IF ~ Gt(ratio, Zero)
                 THEN [raised |-> TRUE, ppm |-> Unbound, voltage |-> Unbound,
                       log |-> <<>>]
                 ELSE [raised |-> FALSE,
                       ppm |-> Pow10(Div(Sub(Log10(ratio), intercept), slope)),
                       voltage |-> voltage,
                       log |-> <<Log(INFO, "Calculated PPM")>>]

AQI_low == 0
AQI_high == 50
PPM_low == 0
PPM_high == 500
HAZARDOUS == 500

\* variant of calculate_aqi: no ceiling above PPM_high
calculate_aqi_extrapolates(ppm) ==
    LET AQI == Add(Mul(Div(Float(AQI_high - AQI_low), Float(PPM_high - PPM_low)),
                       Sub(ppm, Float(PPM_low))),
                   Float(AQI_low))
    IN  [aqi |-> AQI, log |-> <<Log(INFO, "Calculated AQI")>>]

\* variant of calculate_aqi: >= instead of >
calculate_aqi_clamps_at_limit(ppm) ==
    IF Geq(ppm, Float(PPM_high))
    THEN [aqi |-> Float(HAZARDOUS),
          log |-> <<Log(WARNING, "PPM exceeds standard limits, cannot calculate AQI.")>>]
    ELSE LET AQI == Add(Mul(Div(Float(AQI_high - AQI_low), Float(PPM_high - PPM_low)),
                            Sub(ppm, Float(PPM_low))),
                        Float(AQI_low))
         IN  [aqi |-> AQI, log |-> <<Log(INFO, "Calculated AQI")>>]

\* def calculate_aqi(ppm)
calculate_aqi(ppm) ==
    IF Gt(ppm, Float(PPM_high))
    THEN [aqi |-> Float(HAZARDOUS),
          log |-> <<Log(WARNING, "PPM exceeds standard limits, cannot calculate AQI.")>>]
    ELSE LET AQI == Add(Mul(Div(Float(AQI_high - AQI_low), Float(PPM_high - PPM_low)),
                            Sub(ppm, Float(PPM_low))),
                        Float(AQI_low))
         IN  [aqi |-> AQI, log |-> <<Log(INFO, "Calculated AQI")>>]

\* def predict_aqi_with_ai(analog_value); result is what the compiled model
\* answers, which the script does not determine
predict_aqi_with_ai(analog_value, result) ==
    IF result = InferenceError
    THEN [raised |-> TRUE, predicted_aqi |-> Unbound, log |-> <<>>]
    ELSE [raised |-> FALSE, predicted_aqi |-> result,
          log |-> <<Log(INFO, "Predicted AQI using AI")>>]

\* variant of send_data_to_thingsboard: a non-200 response raises
send_data_raises_for_status(data, outcome) ==
    IF outcome = NetworkError
    THEN [raised |-> TRUE, body |-> data, attempts |-> 1, log |-> <<>>]
    ELSE IF outcome = 200
    THEN [raised |-> FALSE, body |-> data, attempts |-> 1,
          log |-> <<Log(INFO, "Data sent successfully to ThingsBoard")>>]
    ELSE [raised |-> TRUE, body |-> data, attempts |-> 1, log |-> <<>>]

\* variant of send_data_to_thingsboard: requests.post inside try/except
send_data_catches_network_error(data, outcome) ==
    IF outcome = NetworkError
    THEN [raised |-> FALSE, body |-> data, attempts |-> 1,
          log |-> <<Log(ERROR, "Error sending data to ThingsBoard")>>]
    ELSE IF outcome = 200
    THEN [raised |-> FALSE, body |-> data, attempts |-> 1,
          log |-> <<Log(INFO, "Data sent successfully to ThingsBoard")>>]
    ELSE [raised |-> FALSE, body |-> data, attempts |-> 1,
          log |-> <<Log(ERROR, "Error sending data to ThingsBoard")>>]

\* def send_data_to_thingsboard(data); outcome is what requests.post meets
send_data_to_thingsboard(data, outcome) ==
    \* requests.post raises when no response arrives
    IF outcome = NetworkError
    THEN [raised |-> TRUE, body |-> data, attempts |-> 1, log |-> <<>>]
    ELSE IF outcome = 200
    THEN [raised |-> FALSE, body |-> data, attempts |-> 1,
          log |-> <<Log(INFO, "Data sent successfully to ThingsBoard")>>]
    ELSE [raised |-> FALSE, body |-> data, attempts |-> 1,
          log |-> <<Log(ERROR, "Error sending data to ThingsBoard")>>]

(***************************************************************************)
(* State: the position in the script, the names the loop body assigns, and *)
(* what the outside has seen of the program (SPI requests, POST bodies,    *)
(* log records, seconds slept).                                            *)
(***************************************************************************)
VARIABLES
    pc,             \* the statement of the script that runs next
    channel,        \* the argument of read_adc
    adc,            \* the last answer of spi.xfer2
    request,        \* the last request handed to spi.xfer2
    analog_value, ppm, voltage, aqi, predicted_aqi, payload,
    response,       \* status code of the last HTTP response, 0 if none came
    posted,         \* JSON body of the last requests.post call
    emitted,        \* log records written by the last step
    exc,            \* the exception that ended the try block, "none" if none
    samples,        \* read_adc calls that returned
    posts,          \* requests.post calls
    cycles,         \* completed loop iterations
    slept,          \* seconds spent in time.sleep
    disconnects,    \* "Disconnected from ThingsBoard." records written
    faults          \* spi.xfer2 calls that failed on the bus

vars == <<pc, channel, adc, request, analog_value, ppm, voltage, aqi,
          predicted_aqi, payload, response, posted, emitted, exc, samples,
          posts, cycles, slept, disconnects, faults>>

bus_vars == <<channel, adc, request, samples, faults>>
http_vars == <<response, posted, posts>>
time_vars == <<cycles, slept>>

MaxCycles == 2

Running == pc # "done"
Terminated == pc = "done"

Init ==
    /\ pc = "read"
    /\ channel = MQ135_CHANNEL
    /\ adc = <<>>
    /\ request = <<>>
    /\ analog_value = Unbound
    /\ ppm = Unbound
    /\ voltage = Unbound
    /\ aqi = Unbound
    /\ predicted_aqi = Unbound
    /\ payload = Unbound
    /\ response = 0
    /\ posted = Unbound
    /\ emitted = <<>>
    /\ exc = "none"
    /\ samples = 0
    /\ posts = 0
    /\ cycles = 0
    /\ slept = 0
    /\ disconnects = 0
    /\ faults = 0

\* variant of Finally: the record is not written
FinallySkipped(before) ==
    /\ emitted' = before
    /\ disconnects' = disconnects

\* finally: logging.info("Disconnected from ThingsBoard."), after the
\* records `before` of the step and of the except clause
Finally(before) ==
    /\ emitted' = before \o <<Log(INFO, "Disconnected from ThingsBoard.")>>
    /\ disconnects' = disconnects + 1

\* leave the try block with exception e: the except clause that matches,
\* then finally
Exit(e, before) ==
    /\ pc' = "done"
    /\ exc' = e
    /\ Finally(before \o (IF e = "KeyboardInterrupt"
                          THEN <<Log(INFO, "Program interrupted.")>>
                          ELSE <<Log(ERROR, "An error occurred")>>))

\* analog_value = read_adc(MQ135_CHANNEL)
ReadStep(Bus) ==
    /\ pc = "read"
    /\ samples < MaxCycles
    /\ \E bus \in Bus :
         LET r == read_adc(channel, bus)
         IN  /\ request' = r.request
             /\ faults' = IF bus = TransportFault THEN faults + 1 ELSE faults
             /\ IF r.raised
                THEN /\ Exit("spi transport fault", r.log)
                     /\ UNCHANGED <<adc, analog_value, samples>>
                ELSE /\ adc' = bus
                     /\ analog_value' = r.data
                     /\ samples' = samples + 1
                     /\ emitted' = r.log
                     /\ pc' = "ppm"
                     /\ UNCHANGED <<exc, disconnects>>
    /\ UNCHANGED <<channel, ppm, voltage, aqi, predicted_aqi, payload>>
    /\ UNCHANGED <<http_vars, time_vars>>

ReadAdc == ReadStep(AdcResponses \cup {TransportFault})

\* ppm, voltage = calculate_ppm(analog_value)
CalculatePpm ==
    /\ pc = "ppm"
    /\ LET r == calculate_ppm(analog_value)
       IN  IF r.raised
           THEN /\ Exit("math domain error", r.log)
                /\ UNCHANGED <<ppm, voltage>>
           ELSE /\ ppm' = r.ppm
                /\ voltage' = r.voltage
                /\ emitted' = r.log
                /\ pc' = "aqi"
                /\ UNCHANGED <<exc, disconnects>>
    /\ UNCHANGED <<analog_value, aqi, predicted_aqi, payload>>
    /\ UNCHANGED <<bus_vars, http_vars, time_vars>>

\* aqi = calculate_aqi(ppm)
CalculateAqi ==
    /\ pc = "aqi"
    /\ LET r == calculate_aqi(ppm)
       IN  /\ aqi' = r.aqi
           /\ emitted' = r.log
    /\ pc' = "predict"
    /\ UNCHANGED <<analog_value, ppm, voltage, predicted_aqi, payload>>
    /\ UNCHANGED <<exc, disconnects, bus_vars, http_vars, time_vars>>

\* predicted_aqi = predict_aqi_with_ai(analog_value)
PredictAqi ==
    /\ pc = "predict"
    /\ \E result \in Predictions \cup {InferenceError} :
         LET r == predict_aqi_with_ai(analog_value, result)
         IN  IF r.raised
             THEN /\ Exit("inference error", r.log)
                  /\ UNCHANGED predicted_aqi
             ELSE /\ predicted_aqi' = r.predicted_aqi
                  /\ emitted' = r.log
                  /\ pc' = "payload"
                  /\ UNCHANGED <<exc, disconnects>>
    /\ UNCHANGED <<analog_value, ppm, voltage, aqi, payload>>
    /\ UNCHANGED <<bus_vars, http_vars, time_vars>>

\* payload = {...}; logging.info(f"Sending data: {payload}")
BuildPayload ==
    /\ pc = "payload"
    /\ payload' = [airQualityIndex |-> aqi,
                   predictedAqi |-> predicted_aqi,
                   mq135_analog_values |-> analog_value,
                   mq135_voltage |-> voltage,
                   ppm |-> ppm]
    /\ emitted' = <<Log(INFO, "Sending data")>>
    /\ pc' = "send"
    /\ UNCHANGED <<analog_value, ppm, voltage, aqi, predicted_aqi>>
    /\ UNCHANGED <<exc, disconnects, bus_vars, http_vars, time_vars>>

\* send_data_to_thingsboard(payload)
SendData ==
    /\ pc = "send"
    /\ \E outcome \in HttpOutcomes :
         LET r == send_data_to_thingsboard(payload, outcome)
         IN  /\ posted' = r.body
             /\ posts' = posts + r.attempts
             /\ response' = outcome
             /\ IF r.raised
                THEN Exit("network error", r.log)
                ELSE /\ emitted' = r.log
                     /\ pc' = "sleep"
                     /\ UNCHANGED <<exc, disconnects>>
    /\ UNCHANGED <<analog_value, ppm, voltage, aqi, predicted_aqi, payload>>
    /\ UNCHANGED <<bus_vars, time_vars>>

\* variant of Sleep: the next iteration starts without the delay
SleepSkipped ==
    /\ pc = "sleep"
    /\ pc' = "read"
    /\ cycles' = cycles + 1
    /\ emitted' = <<>>
    /\ UNCHANGED <<slept, analog_value, ppm, voltage, aqi, predicted_aqi, payload>>
    /\ UNCHANGED <<exc, disconnects, bus_vars, http_vars>>

\* time.sleep(5), then the next iteration of while True
Sleep ==
    /\ pc = "sleep"
    /\ slept' = slept + SLEEP_SECONDS
    /\ cycles' = cycles + 1
    /\ emitted' = <<>>
    /\ pc' = "read"
    /\ UNCHANGED <<analog_value, ppm, voltage, aqi, predicted_aqi, payload>>
    /\ UNCHANGED <<exc, disconnects, bus_vars, http_vars>>

\* Ctrl-C while the loop runs
KeyboardInterrupt ==
    /\ pc # "done"
    /\ Exit("KeyboardInterrupt", <<>>)
    /\ UNCHANGED <<analog_value, ppm, voltage, aqi, predicted_aqi, payload>>
    /\ UNCHANGED <<bus_vars, http_vars, time_vars>>

Next ==
    \/ ReadAdc
    \/ CalculatePpm
    \/ CalculateAqi
    \/ PredictAqi
    \/ BuildPayload
    \/ SendData
    \/ Sleep
    \/ KeyboardInterrupt

Spec == Init /\ [][Next]_vars

(***************************************************************************)
(* read_adc on its own: every channel, every answer of the converter       *)
(***************************************************************************)
Channels == 0 .. 7

AllAdcResponses == { <<b0, b1, b2>> : b0 \in {0, 255}, b1 \in Byte, b2 \in Byte }

InitAdc ==
    /\ pc = "read"
    /\ channel \in Channels
    /\ adc = <<>>
    /\ request = <<>>
    /\ analog_value = Unbound
    /\ ppm = Unbound
    /\ voltage = Unbound
    /\ aqi = Unbound
    /\ predicted_aqi = Unbound
    /\ payload = Unbound
    /\ response = 0
    /\ posted = Unbound
    /\ emitted = <<>>
    /\ exc = "none"
    /\ samples = 0
    /\ posts = 0
    /\ cycles = 0
    /\ slept = 0
    /\ disconnects = 0
    /\ faults = 0

ReadAnyAdc == ReadStep(AllAdcResponses)

NextAdc == ReadAnyAdc

SpecAdc == InitAdc /\ [][NextAdc]_vars

(***************************************************************************)
(* calculate_ppm and calculate_aqi on every 10-bit sample: the state       *)
(* right after read_adc returned it in the first iteration                 *)
(***************************************************************************)
RawSamples == 0 .. 1023

InitDerive ==
    /\ pc = "ppm"
    /\ channel = MQ135_CHANNEL
    /\ analog_value \in RawSamples
    /\ adc = <<0, analog_value \div 256, analog_value % 256>>
    /\ request = read_adc(channel, adc).request
    /\ ppm = Unbound
    /\ voltage = Unbound
    /\ aqi = Unbound
    /\ predicted_aqi = Unbound
    /\ payload = Unbound
    /\ response = 0
    /\ posted = Unbound
    /\ emitted = read_adc(channel, adc).log
    /\ exc = "none"
    /\ samples = 1
    /\ posts = 0
    /\ cycles = 0
    /\ slept = 0
    /\ disconnects = 0
    /\ faults = 0

NextDerive == CalculatePpm \/ CalculateAqi

SpecDerive == InitDerive /\ [][NextDerive]_vars

(***************************************************************************)
(* calculate_aqi on its own, on a grid of non-negative ppm values          *)
(***************************************************************************)
MaxPpm == 520

PpmInputs ==
    { Float(n) : n \in 0 .. MaxPpm }
    \cup { Round(n, -1) : n \in {1, 5, 4999, 5001} }
    \cup { Round(n, 3) : n \in {1, 25, 1444} }

InitAqi ==
    /\ pc = "aqi"
    /\ channel = MQ135_CHANNEL
    /\ adc = <<>>
    /\ request = <<>>
    /\ analog_value = Unbound
    /\ ppm \in PpmInputs
    /\ voltage = Unbound
    /\ aqi = Unbound
    /\ predicted_aqi = Unbound
    /\ payload = Unbound
    /\ response = 0
    /\ posted = Unbound
    /\ emitted = <<>>
    /\ exc = "none"
    /\ samples = 0
    /\ posts = 0
    /\ cycles = 0
    /\ slept = 0
    /\ disconnects = 0
    /\ faults = 0

NextAqi == CalculateAqi

SpecAqi == InitAqi /\ [][NextAqi]_vars

(***************************************************************************)
(* Properties                                                              *)
(***************************************************************************)
Interrupted == exc' = "KeyboardInterrupt"

ErrorRecord == Log(ERROR, "Error sending data to ThingsBoard")
HandlerRecords ==
    <<Log(ERROR, "An error occurred"), Log(INFO, "Disconnected from ThingsBoard.")>>

\* x * kx = y * ky, computed without rounding (kx, ky small positive integers)
SameValue(x, kx, y, ky) ==
    LET lo == IF x.e < y.e THEN x.e ELSE y.e
    IN  x.m * kx * (10 ^ (x.e - lo)) = y.m * ky * (10 ^ (y.e - lo))

\* C1: a POST answered with a status other than 200 leaves the driver
\* Running: the step writes the error record and nothing else, makes that
\* one POST only and goes to the sleep; the only way on from the sleep is
\* the 5 second delay followed by the next read, and the read that follows
\* takes a new sample.
C1_Non200KeepsRunning ==
    [][ /\ (pc = "send" /\ posts' # posts /\ response' \notin {200, NetworkError})
            => /\ pc' = "sleep"
               /\ exc' = "none"
               /\ disconnects' = 0
               /\ posts' = posts + 1
               /\ emitted' = <<ErrorRecord>>
        /\ (pc = "sleep" /\ ~ Interrupted)
            => /\ pc' = "read"
               /\ slept' = slept + SLEEP_SECONDS
               /\ posts' = posts
               /\ samples' = samples
        /\ (pc = "read" /\ pc' # "done")
            => /\ pc' = "ppm"
               /\ samples' = samples + 1
               /\ posts' = posts
      ]_vars

\* C1 witness: a second sample was taken after a cycle whose POST got a 500
C1_Witness ==
    /\ response = 500
    /\ posts = 1
    /\ samples = 2
    /\ slept = SLEEP_SECONDS
    /\ pc = "ppm"

\* C2 as stated: a POST that fails without a response is logged and the
\* loop goes on to the sleep, as after a non-200 response.
C2_NetworkErrorKeepsRunning ==
    [][ (pc = "send" /\ posts' # posts /\ response' = NetworkError)
            => /\ pc' = "sleep"
               /\ exc' = "none"
      ]_vars

\* C2 amended: a POST that fails without a response is not recovered inside
\* the cycle: the exception reaches the outer handler, which logs it, the
\* one POST is not repeated (the data point is dropped), and the driver is
\* Terminated; nothing runs after that.
C2_NetworkErrorTerminates ==
    [][ /\ (pc = "send" /\ posts' # posts /\ response' = NetworkError)
            => /\ pc' = "done"
               /\ exc' = "network error"
               /\ posts' = posts + 1
               /\ emitted' = HandlerRecords
               /\ disconnects' = 1
        /\ (exc = "network error") => UNCHANGED vars
      ]_vars

\* C2 witness: the driver terminated by a network error of the POST
C2_Witness ==
    /\ pc = "done"
    /\ exc = "network error"
    /\ response = NetworkError
    /\ posts = cycles + 1

\* C3: once spi.xfer2 has failed the driver is Terminated by that fault (it
\* is not swallowed), the failed cycle has sampled nothing and posted
\* nothing, and no later step runs.
C3_SamplerFaultIsFatal ==
    /\ [](faults > 0 =>
            /\ pc = "done"
            /\ exc = "spi transport fault"
            /\ faults = 1
            /\ samples = cycles
            /\ posts = cycles
            /\ disconnects = 1)
    /\ [][faults > 0 => UNCHANGED vars]_vars

\* C3 witness: a fault in the second cycle, after one complete cycle
C3_Witness ==
    /\ faults = 1
    /\ pc = "done"
    /\ cycles = 1
    /\ posts = 1

\* C4: every voltage calculate_ppm returns is in [0, supply_voltage] and is
\* positive when the sample is, and every AQI calculate_aqi returns for it is
\* in [0, 500].
C4_DerivedReadingInRange ==
    /\ pc \in {"aqi", "predict"} =>
            /\ Geq(voltage, Zero)
            /\ Geq(supply_voltage, voltage)
            /\ analog_value > 0 => Gt(voltage, Zero)
            /\ Geq(ppm, Zero)
    /\ pc = "predict" =>
            /\ Geq(aqi, Zero)
            /\ Geq(Float(HAZARDOUS), aqi)

\* C4 witness: a reading above the PPM range, clamped to the ceiling
C4_Witness ==
    /\ pc = "predict"
    /\ analog_value = 1022
    /\ Gt(ppm, Float(PPM_high))
    /\ aqi = Float(HAZARDOUS)

\* C5: with a raw sample of 0, calculate_ppm returns (0, 0) and writes the
\* warning instead of raising, calculate_aqi returns 0, the payload is built
\* from these values and the POST is made with it.
C5_ZeroSampleIsNotFatal ==
    [][ (pc \in {"ppm", "aqi", "payload", "send"} /\ analog_value = 0
            /\ ~ Interrupted) =>
          /\ pc = "ppm" =>
                /\ pc' = "aqi"
                /\ exc' = "none"
                /\ ppm' = Zero
                /\ voltage' = Zero
                /\ emitted' = <<Log(WARNING, "Voltage is zero, check sensor wiring.")>>
          /\ pc = "aqi" =>
                /\ pc' = "predict"
                /\ aqi' = Zero
          /\ pc = "payload" =>
                /\ pc' = "send"
                /\ payload'.ppm = Zero
                /\ payload'.mq135_voltage = Zero
                /\ payload'.airQualityIndex = Zero
                /\ payload'.mq135_analog_values = 0
          /\ pc = "send" =>
                /\ posts' = posts + 1
                /\ posted' = payload
                /\ response' # NetworkError => pc' = "sleep" /\ exc' = "none"
      ]_vars

\* C5 witness: the payload of a zero sample was posted and the loop sleeps
C5_Witness ==
    /\ pc = "sleep"
    /\ analog_value = 0
    /\ posts = cycles + 1
    /\ posted.ppm = Zero
    /\ posted.mq135_voltage = Zero
    /\ posted.airQualityIndex = Zero

\* C6: for 0 <= ppm <= 500 calculate_aqi returns ppm * 50 / 500, which does
\* not decrease as ppm grows, is 0 at 0 and 50 at 500; above 500 it returns
\* exactly 500.
C6_AqiIsReferenceMapping ==
    pc = "predict" =>
        /\ Geq(Float(PPM_high), ppm) =>
              /\ SameValue(aqi, 500, ppm, 50)
              /\ \A q \in PpmInputs :
                    (Geq(q, ppm) /\ Geq(Float(PPM_high), q))
                        => Geq(calculate_aqi(q).aqi, aqi)
        /\ ppm = Zero => aqi = Zero
        /\ ppm = Float(500) => aqi = Float(50)
        /\ Gt(ppm, Float(PPM_high)) => aqi = Float(500)

\* C6 witness: the boundary ppm = 500 mapped to 50
C6_Witness ==
    /\ pc = "predict"
    /\ ppm = Float(500)
    /\ aqi = Float(50)

\* C7: with the raw sample saturated at 1023 the ratio is not positive and
\* the PPM step raises: unless the interrupt comes first, the step ends the
\* try block through the outer handler, nothing is posted for the cycle and
\* the driver is Terminated.
C7_SaturatedSampleIsFatal ==
    [][ (pc = "ppm" /\ analog_value = 1023) =>
          /\ pc' = "done"
          /\ posts' = posts
          /\ posts' = cycles
          /\ ~ Interrupted =>
                /\ exc' = "math domain error"
                /\ emitted' = HandlerRecords
      ]_vars

\* C7 witness: the driver terminated by the arithmetic error
C7_Witness ==
    /\ pc = "done"
    /\ exc = "math domain error"
    /\ analog_value = 1023
    /\ posts = cycles

\* C8: read_adc sends [1, (8 + channel) << 4, 0] and returns
\* ((byte1 & 3) << 8) + byte2, a value in 0 .. 1023 that is the same
\* whatever byte0 and the upper six bits of byte1 are.
C8_ReadAdcIsTenBit ==
    samples = 1 =>
        /\ request = <<1, (8 + channel) * 16, 0>>
        /\ analog_value = (adc[2] % 4) * 256 + adc[3]
        /\ analog_value \in 0 .. 1023
        /\ analog_value = read_adc(channel, <<0, adc[2] % 4, adc[3]>>).data

\* C8 witness: the largest code, read on the last channel through junk bits
C8_Witness ==
    /\ samples = 1
    /\ channel = 7
    /\ adc = <<255, 255, 255>>
    /\ analog_value = 1023

PcOrder == <<"read", "ppm", "aqi", "predict", "payload", "send", "sleep">>
PcIndex(p) == CHOOSE i \in 1 .. Len(PcOrder) : PcOrder[i] = p

\* C9: the steps of an iteration run in the order read, ppm, aqi, predict,
\* payload, send, sleep; an iteration takes one sample and makes one POST,
\* the POST carries the sample of that iteration, and a sample is taken only
\* when every earlier iteration has slept its 5 seconds.
C9_OneOrderedPassPerIteration ==
    /\ [](Running =>
            /\ samples = cycles + (IF pc = "read" THEN 0 ELSE 1)
            /\ posts = cycles + (IF pc = "sleep" THEN 1 ELSE 0)
            /\ slept = SLEEP_SECONDS * cycles
            /\ pc = "sleep" =>
                  /\ posted.mq135_analog_values = (adc[2] % 4) * 256 + adc[3]
                  /\ posted = payload)
    /\ [][ /\ (Running /\ Running') =>
                 pc' = PcOrder[(PcIndex(pc) % Len(PcOrder)) + 1]
           /\ samples' # samples =>
                 /\ samples' = samples + 1
                 /\ slept = SLEEP_SECONDS * samples
                 /\ posts = samples
           /\ posts' # posts => posts' = posts + 1 /\ pc = "send"
       ]_vars

\* C9 witness: two complete iterations
C9_Witness ==
    /\ pc = "read"
    /\ cycles = 2
    /\ samples = 2
    /\ posts = 2
    /\ slept = 2 * SLEEP_SECONDS

\* C10: the driver is Running or Terminated; it becomes Terminated only by
\* the interrupt or by an exception of a step of the cycle, it never leaves
\* Terminated and does nothing there, and whenever it is Terminated the
\* "Disconnected" record has been written exactly once.
C10_TwoStatesOneDisconnect ==
    /\ [](/\ pc \in {"read", "ppm", "aqi", "predict", "payload", "send", "sleep", "done"}
          /\ Running => (exc = "none" /\ disconnects = 0)
          /\ Terminated =>
                /\ exc \in {"KeyboardInterrupt", "spi transport fault",
                            "math domain error", "inference error", "network error"}
                /\ disconnects = 1
                /\ emitted[Len(emitted)] = Log(INFO, "Disconnected from ThingsBoard."))
    /\ [][ /\ Terminated => UNCHANGED vars
           /\ (Running /\ Terminated' /\ ~ Interrupted) =>
                 /\ pc \in {"read", "ppm", "predict", "send"}
                 /\ emitted' = HandlerRecords
       ]_vars

\* C10 witness: the driver terminated by an exception of the inference step
C10_Witness ==
    /\ pc = "done"
    /\ exc = "inference error"
    /\ disconnects = 1
    /\ cycles = 1

====
